---- MODULE Spec2Model ----
(***************************************************************************)
(* Model of the SIDM histogram definitions (sidm/definitions/hists.py) and *)
(* of the fill engine that consumes them.                                  *)
(*                                                                         *)
(* Numbers.  Axis values are floating point numbers in the program.  Here  *)
(* a value is an exact fraction <<n, d>> with d > 0, and the not-a-number  *)
(* sentinel is <<0, 0>>.  Bin lookups use exact integer arithmetic.        *)
(***************************************************************************)
EXTENDS Integers, Sequences, FiniteSets, TLC

VARIABLES
    hname,      \* name of the histogram being filled
    objs,       \* the batch: collection name -> per-event list of objects
    weights,    \* the per-event weights of the batch
    pc,         \* position of the fill call
    mask,       \* the event mask computed by this fill
    calls,      \* the calls this fill has made to evt_mask and to fill functions
    raw,        \* the values returned by the fill functions so far
    flat,       \* the aligned flat vectors and weights
    storage,    \* the histogram's bin cells
    assign,     \* event index -> the worker that fills it
    pool,       \* the partial storages not yet merged away
    bax, bval, bidx, bpc   \* a single bin lookup: axis, value, result, position

vars == <<hname, objs, weights, pc, mask, calls, raw, flat, storage,
          assign, pool, bax, bval, bidx, bpc>>

inputVars == <<hname, objs, weights>>
fillVars == <<pc, mask, calls, raw, flat, storage>>
mergeVars == <<assign, pool>>
binVars == <<bax, bval, bidx, bpc>>

-----------------------------------------------------------------------------
(* Bounds of the model *)

MaxEvents == 2
MaxObjs == 2

-----------------------------------------------------------------------------
(* Exact fractions standing for the program's floats *)

Q(n, d) == <<n, d>>
R(n) == <<n, 1>>
NaN == <<0, 0>>
IsNaN(x) == x[2] = 0
Lt(a, b) == a[1] * b[2] < b[1] * a[2]
RECURSIVE GCD(_, _)
GCD(a, b) == IF b = 0 THEN a ELSE GCD(b, a % b)
\* the fraction n/d (d > 0) in lowest terms
Norm(n, d) ==
    LET g == GCD(IF n < 0 THEN 0 - n ELSE n, d)
    IN  <<n \div g, d \div g>>
Sub(a, b) == IF IsNaN(a) \/ IsNaN(b) THEN NaN
             ELSE Norm(a[1] * b[2] - b[1] * a[2], a[2] * b[2])
Add(a, b) == IF IsNaN(a) \/ IsNaN(b) THEN NaN
             ELSE Norm(a[1] * b[2] + b[1] * a[2], a[2] * b[2])
Mul(a, b) == IF IsNaN(a) \/ IsNaN(b) THEN NaN ELSE Norm(a[1] * b[1], a[2] * b[2])
AbsQ(a) == IF a[1] < 0 THEN <<0 - a[1], a[2]>> ELSE a
\* a / b; a missing or zero divisor gives the not-a-number sentinel
Div(a, b) == IF IsNaN(a) \/ IsNaN(b) \/ b[1] = 0 THEN NaN
             ELSE IF b[1] < 0 THEN Norm((0 - a[1]) * b[2], a[2] * (0 - b[1]))
             ELSE Norm(a[1] * b[2], a[2] * b[1])
Floor(a) == a[1] \div a[2]
\* math.pi as a fraction
Pi == Q(22, 7)

-----------------------------------------------------------------------------
(* Binning specifications: hist.axis.Regular, hist.axis.Integer and        *)
(* hist.axis.IntCategory.  Bin -1 is the underflow bin and bin Size is the *)
(* overflow ("other") bin.                                                 *)

Regular(n, lo, hi) == [kind |-> "Regular", n |-> n, lo |-> lo, hi |-> hi, cats |-> <<>>]
Integer(lo, hi) == [kind |-> "Integer", n |-> hi - lo, lo |-> R(lo), hi |-> R(hi), cats |-> <<>>]
IntCategory(cats) == [kind |-> "IntCategory", n |-> Len(cats), lo |-> R(0), hi |-> R(0), cats |-> cats]

Size(ax) == ax.n
Underflow == -1
Overflow(ax) == Size(ax)

RegularIndex(ax, v) ==
    IF IsNaN(v) THEN Overflow(ax)
    ELSE IF Lt(v, ax.lo) THEN Underflow
    ELSE IF ~Lt(v, ax.hi) THEN Overflow(ax)
    ELSE Floor(Div(Mul(Sub(v, ax.lo), R(ax.n)), Sub(ax.hi, ax.lo)))

IntegerIndex(ax, v) ==
    IF IsNaN(v) THEN Overflow(ax)
    ELSE IF Floor(v) < ax.lo[1] THEN Underflow
    ELSE IF Floor(v) >= ax.hi[1] THEN Overflow(ax)
    ELSE Floor(v) - ax.lo[1]

CategoryIndex(ax, v) ==
    IF \E k \in 1..Len(ax.cats) : R(ax.cats[k]) = v
    THEN (CHOOSE k \in 1..Len(ax.cats) : R(ax.cats[k]) = v) - 1
    ELSE Overflow(ax)

Index(ax, v) ==
    CASE ax.kind = "Regular" -> RegularIndex(ax, v)
      [] ax.kind = "Integer" -> IntegerIndex(ax, v)
      [] ax.kind = "IntCategory" -> CategoryIndex(ax, v)

-----------------------------------------------------------------------------
(* Arrays.  An array is [ok, ndim, data]: ndim 1 is one value per entry of *)
(* the outer dimension, ndim 2 is a ragged list per entry.  ok = FALSE is  *)
(* the IndexError raised by an out-of-range index.                         *)

Scalar(d) == [ok |-> TRUE, ndim |-> 1, data |-> d]
Ragged(d) == [ok |-> TRUE, ndim |-> 2, data |-> d]
IndexError == [ok |-> FALSE, ndim |-> 0, data |-> <<>>]

\* The indices of a sequence of booleans that are TRUE, in increasing order
RECURSIVE Passing(_, _)
Passing(m, i) ==
    IF i > Len(m) THEN <<>>
    ELSE IF m[i] THEN <<i>> \o Passing(m, i + 1) ELSE Passing(m, i + 1)

AllPass(n) == [i \in 1..n |-> TRUE]

\* ak.num(coll): the object count of every event
Num(coll) == Scalar([i \in 1..Len(coll) |-> R(Len(coll[i]))])

\* coll.f for a whole collection: one value per object of every event
Field(a, f) ==
    IF ~a.ok THEN a
    ELSE IF a.ndim = 1 THEN Scalar([i \in 1..Len(a.data) |-> a.data[i][f]])
    ELSE Ragged([i \in 1..Len(a.data) |->
                    [j \in 1..Len(a.data[i]) |-> a.data[i][j][f]]])

\* coll[mask, k]: object k (from 0) of every event the mask passes;
\* IndexError when a passing event has k or fewer objects
MaskIndex(coll, m, k) ==
    LET p == Passing(m, 1)
    IN  IF \E j \in 1..Len(p) : Len(coll[p[j]]) <= k THEN IndexError
        ELSE Scalar([j \in 1..Len(p) |-> coll[p[j]][k + 1]])

\* a - b elementwise, for arrays of the same layout
SubArr(a, b) ==
    IF ~a.ok THEN a
    ELSE IF ~b.ok THEN b
    ELSE IF a.ndim = 1 THEN Scalar([i \in 1..Len(a.data) |-> Sub(a.data[i], b.data[i])])
    ELSE Ragged([i \in 1..Len(a.data) |->
                    [j \in 1..Len(a.data[i]) |-> Sub(a.data[i][j], b.data[i][j])]])

\* a / b elementwise, for arrays of the same layout
DivArr(a, b) ==
    IF ~a.ok THEN a
    ELSE IF ~b.ok THEN b
    ELSE IF a.ndim = 1 THEN Scalar([i \in 1..Len(a.data) |-> Div(a.data[i], b.data[i])])
    ELSE Ragged([i \in 1..Len(a.data) |->
                    [j \in 1..Len(a.data[i]) |-> Div(a.data[i][j], b.data[i][j])]])

\* abs(a) elementwise
AbsArr(a) ==
    IF ~a.ok THEN a
    ELSE IF a.ndim = 1 THEN Scalar([i \in 1..Len(a.data) |-> AbsQ(a.data[i])])
    ELSE Ragged([i \in 1..Len(a.data) |->
                    [j \in 1..Len(a.data[i]) |-> AbsQ(a.data[i][j])]])

\* squared angular distance of two objects (delta phi wrapped into [-pi, pi))
DPhi(a, b) ==
    LET d == Sub(a.phi, b.phi)
        twoPi == Mul(R(2), Pi)
    IN  IF ~Lt(d, Pi) THEN Sub(d, twoPi)
        ELSE IF Lt(d, Sub(R(0), Pi)) THEN Add(d, twoPi)
        ELSE d
DR2(a, b) ==
    LET de == Sub(a.eta, b.eta)
        dp == DPhi(a, b)
    IN  Add(Mul(de, de), Mul(dp, dp))

\* the record standing for "no match": every field is not-a-number
NoMatch == [pt |-> NaN, eta |-> NaN, phi |-> NaN, iso |-> NaN]

\* index of the first object of cands nearest to o
ArgMin(o, cands) ==
    CHOOSE k \in 1..Len(cands) :
        /\ \A l \in 1..Len(cands) : ~Lt(DR2(o, cands[l]), DR2(o, cands[k]))
        /\ \A l \in 1..(k - 1) : Lt(DR2(o, cands[k]), DR2(o, cands[l]))

\* prim.nearest(sec): per event, for every primary object the nearest
\* secondary object of the same event, NoMatch when the event has none
Nearest(prim, sec) ==
    Ragged([i \in 1..Len(prim) |->
        [j \in 1..Len(prim[i]) |->
            IF Len(sec[i]) = 0 THEN NoMatch
            ELSE sec[i][ArgMin(prim[i][j], sec[i])]]])

\* the largest integer k in lo..(hi - 1) with k * k <= n
RECURSIVE ISqrtIn(_, _, _)
ISqrtIn(n, lo, hi) ==
    IF hi - lo <= 1 THEN lo
    ELSE LET mid == (lo + hi) \div 2
         IN  IF mid * mid <= n THEN ISqrtIn(n, mid, hi) ELSE ISqrtIn(n, lo, mid)
ISqrt(n) == ISqrtIn(n, 0, IF n < 46340 THEN n + 1 ELSE 46340)

\* square root of a fraction n/d, rounded down to a multiple of 1/d; the
\* root of a negative number is not a number
Sqrt(a) ==
    IF IsNaN(a) \/ a[1] < 0 THEN NaN ELSE Norm(ISqrt(a[1] * a[2]), a[2])

\* coll[mask, :2]: the first two objects, or fewer, of every passing event
SliceTwo(coll, m) ==
    LET p == Passing(m, 1)
    IN  Ragged([j \in 1..Len(p) |->
                  SubSeq(coll[p[j]], 1,
                         IF Len(coll[p[j]]) < 2 THEN Len(coll[p[j]]) ELSE 2)])

\* the sum of component f over a list of four-vectors
RECURSIVE SumComp(_, _)
SumComp(os, f) ==
    IF Len(os) = 0 THEN R(0) ELSE Add(Head(os)[f], SumComp(Tail(os), f))

\* a.p4.sum(): per event the componentwise sum of the objects' four-vectors
P4Sum(a) ==
    Scalar([i \in 1..Len(a.data) |->
              [f \in {"px", "py", "pz", "e"} |-> SumComp(a.data[i], f)]])

\* v.mass and v.pt of a four-vector given by its components
Mass(v) ==
    Sqrt(Sub(Mul(v["e"], v["e"]),
             Add(Add(Mul(v["px"], v["px"]), Mul(v["py"], v["py"])),
                 Mul(v["pz"], v["pz"]))))
Pt(v) == Sqrt(Add(Mul(v["px"], v["px"]), Mul(v["py"], v["py"])))
MassArr(a) == Scalar([i \in 1..Len(a.data) |-> Mass(a.data[i])])
PtArr(a) == Scalar([i \in 1..Len(a.data) |-> Pt(a.data[i])])

\* a.p4.delta_r(b.p4) elementwise, one object per passing event on each side
DeltaRArr(a, b) ==
    IF ~a.ok THEN a
    ELSE IF ~b.ok THEN b
    ELSE Scalar([i \in 1..Len(a.data) |-> Sqrt(DR2(a.data[i], b.data[i]))])

-----------------------------------------------------------------------------
(* The registry hist_defs: for every histogram its axes (binning and fill  *)
(* function) and its event predicate evt_mask.                             *)

pv_n_axis == Regular(50, R(0), R(100))
pv_n_fill(o, m) == Num(o["pvs"])

lj_n_axis == Integer(0, 10)
\* mutant: len(objs["ljs"]), the batch size, in place of the per-event count
lj_n_fill_len(o, m) == Scalar([i \in 1..Len(o["ljs"]) |-> R(Len(o["ljs"]))])
\* mutant: the objects' pT in place of their count (ak.num forgotten)
lj_n_fill_pt(o, m) == Field(Ragged(o["ljs"]), "pt")
lj_n_fill(o, m) == Num(o["ljs"])

lj_pt_axis == Regular(100, R(0), R(100))
lj_pt_fill(o, m) == Field(Ragged(o["ljs"]), "pt")

lj0_pfIsolation05_axis == Regular(80, R(0), Q(8, 10))
\* mutant: ak.firsts(objs["ljs"][mask]) in place of the index 0: a missing
\* object becomes a placeholder (not-a-number) and nothing is raised
lj0_pfIsolation05_fill_firsts(o, m) ==
    LET p == Passing(m, 1)
    IN  Scalar([j \in 1..Len(p) |->
                  IF Len(o["ljs"][p[j]]) = 0 THEN NaN
                  ELSE o["ljs"][p[j]][1]["iso05"]])
lj0_pfIsolation05_fill(o, m) == Field(MaskIndex(o["ljs"], m, 0), "iso05")
lj0_pfIsolation05_evt_mask(o) == [i \in 1..Len(o["ljs"]) |-> Len(o["ljs"][i]) > 0]

lj1_pfIsolation05_axis == Regular(80, R(0), Q(8, 10))
lj1_pfIsolation05_fill(o, m) == Field(MaskIndex(o["ljs"], m, 1), "iso05")
\* mutant: the predicate of the leading-object histogram (> 0) declared
lj1_pfIsolation05_evt_mask_gt0(o) == [i \in 1..Len(o["ljs"]) |-> Len(o["ljs"][i]) > 0]
lj1_pfIsolation05_evt_mask(o) == [i \in 1..Len(o["ljs"]) |-> Len(o["ljs"][i]) > 1]

lj0_pt_axis == Regular(100, R(0), R(100))
\* mutant: index 1, the subleading object, in place of index 0
lj0_pt_fill_idx1(o, m) == Field(MaskIndex(o["ljs"], m, 1), "pt")
lj0_pt_fill(o, m) == Field(MaskIndex(o["ljs"], m, 0), "pt")
lj0_pt_evt_mask(o) == [i \in 1..Len(o["ljs"]) |-> Len(o["ljs"][i]) > 0]

lj1_pt_axis == Regular(100, R(0), R(100))
lj1_pt_fill(o, m) == Field(MaskIndex(o["ljs"], m, 1), "pt")
\* mutant: the predicate of the leading-object histogram (> 0) copied
lj1_pt_evt_mask_gt0(o) == [i \in 1..Len(o["ljs"]) |-> Len(o["ljs"][i]) > 0]
lj1_pt_evt_mask(o) == [i \in 1..Len(o["ljs"]) |-> Len(o["ljs"][i]) > 1]

lj_eta_axis == Regular(50, R(-3), R(3))
lj_eta_fill(o, m) == Field(Ragged(o["ljs"]), "eta")
lj_phi_axis == Regular(50, Sub(R(0), Pi), Pi)
\* mutant: the phi axis filled with eta
lj_phi_fill_eta(o, m) == Field(Ragged(o["ljs"]), "eta")
\* mutant: the phi axis reads another collection
lj_phi_fill_genAs(o, m) == Field(Ragged(o["genAs"]), "phi")
lj_phi_fill(o, m) == Field(Ragged(o["ljs"]), "phi")

\* mutant: the upper edge raised so that +1 is an in-range bin
ljsource_charge_axis_hi2 == Integer(-1, 2)
ljsource_charge_axis == Integer(-1, 1)
ljsource_charge_fill(o, m) == Field(Ragged(o["ljsources"]), "charge")

\* mutant: a declared value left out of the list
ljsource_type_axis_no8 == IntCategory(<<2, 3, 4>>)
ljsource_type_axis == IntCategory(<<2, 3, 4, 8>>)
ljsource_type_fill(o, m) == Field(Ragged(o["ljsources"]), "type")

lj_lj_absdphi_axis == Regular(50, R(0), Mul(R(2), Pi))
lj_lj_absdphi_fill(o, m) ==
    AbsArr(SubArr(Field(MaskIndex(o["ljs"], m, 1), "phi"),
                         Field(MaskIndex(o["ljs"], m, 0), "phi")))
lj_lj_absdphi_evt_mask(o) == [i \in 1..Len(o["ljs"]) |-> Len(o["ljs"][i]) > 1]

abcd_absdphi_axis == Regular(200, R(0), Mul(R(2), Pi))
abcd_absdphi_fill(o, m) ==
    AbsArr(SubArr(Field(MaskIndex(o["ljs"], m, 1), "phi"),
                         Field(MaskIndex(o["ljs"], m, 0), "phi")))
abcd_iso_axis == Regular(80, R(0), Q(8, 10))
abcd_iso_fill(o, m) == Field(MaskIndex(o["ljs"], m, 0), "iso")
abcd_evt_mask(o) == [i \in 1..Len(o["ljs"]) |-> Len(o["ljs"][i]) > 1]

genA_n_axis == Regular(10, R(0), R(10))
genA_n_fill(o, m) == Num(o["genAs"])

genA_eta_axis == Regular(50, R(-3), R(3))
genA_eta_fill(o, m) == Field(Ragged(o["genAs"]), "eta")
genA_phi_axis == Regular(50, Sub(R(0), Pi), Pi)
genA_phi_fill(o, m) == Field(Ragged(o["genAs"]), "phi")

genA_genA_dphi_axis == Regular(50, R(0), Mul(R(2), Pi))
genA_genA_dphi_fill(o, m) ==
    AbsArr(SubArr(Field(MaskIndex(o["genAs"], m, 1), "phi"),
                  Field(MaskIndex(o["genAs"], m, 0), "phi")))
genA_genA_dphi_evt_mask(o) == [i \in 1..Len(o["genAs"]) |-> Len(o["genAs"][i]) > 1]

lj_genA_ptRatio_axis == Regular(50, R(0), R(2))
\* mutant: the leading dark photon objs["genAs"][mask, 0] is indexed, which
\* raises on an event without dark photons
lj_genA_ptRatio_fill_lead(o, m) ==
    LET lead == MaskIndex(o["genAs"], m, 0)
    IN  IF ~lead.ok THEN lead
        ELSE DivArr(Field(Ragged(o["ljs"]), "pt"),
                       Field(Nearest(o["ljs"], o["genAs"]), "pt"))
lj_genA_ptRatio_fill(o, m) ==
    DivArr(Field(Ragged(o["ljs"]), "pt"),
              Field(Nearest(o["ljs"], o["genAs"]), "pt"))

\* further histograms of the registry are declared in Axes, FillFunc and
\* EvtMask below
\* mutant: the phi axis is a view of the photons
electron_phi_fill_photons(o, m) == Field(Ragged(o["photons"]), "phi")
electron_phi_fill(o, m) == Field(Ragged(o["electrons"]), "phi")

HistNames == {"pv_n", "lj_n", "lj_pt", "lj0_pt", "lj1_pt", "lj_eta_phi",
              "ljsource_charge", "ljsource_type", "lj_lj_absdphi",
              "abcd_lj_lj_dphi_vs_lj0_pfIsolationPt05", "genA_n",
              "genA_eta_phi", "lj_genA_ptRatio"}

\* the hist.axis objects of a histogram, in order
Axes(h) ==
    CASE h = "pv_n" -> <<pv_n_axis>>
      [] h = "lj_n" -> <<lj_n_axis>>
      [] h = "lj_pt" -> <<lj_pt_axis>>
      [] h = "lj0_pfIsolation05" -> <<lj0_pfIsolation05_axis>>
      [] h = "lj1_pfIsolation05" -> <<lj1_pfIsolation05_axis>>
      [] h = "lj0_pt" -> <<lj0_pt_axis>>
      [] h = "lj1_pt" -> <<lj1_pt_axis>>
      [] h = "lj_eta_phi" -> <<lj_eta_axis, lj_phi_axis>>
      [] h = "ljsource_charge" -> <<ljsource_charge_axis>>
      [] h = "ljsource_type" -> <<ljsource_type_axis>>
      [] h = "lj_lj_absdphi" -> <<lj_lj_absdphi_axis>>
      [] h = "abcd_lj_lj_dphi_vs_lj0_pfIsolationPt05" -> <<abcd_absdphi_axis, abcd_iso_axis>>
      [] h = "genA_n" -> <<genA_n_axis>>
      [] h = "genA_eta_phi" -> <<genA_eta_axis, genA_phi_axis>>
      [] h = "genA_genA_dphi" -> <<genA_genA_dphi_axis>>
      [] h = "lj_genA_ptRatio" -> <<lj_genA_ptRatio_axis>>
      [] h = "lj0_e" -> <<Regular(350, R(0), R(700))>>
      [] h = "lj1_e" -> <<Regular(350, R(0), R(700))>>
      [] h = "lj_lj_invmass" -> <<Regular(100, R(0), R(2000))>>
      [] h = "lj_lj_invmass_lowRange" -> <<Regular(100, R(0), R(500))>>
      [] h = "genE0_pt" -> <<Regular(100, R(0), R(200))>>
      [] h = "genE1_pt" -> <<Regular(100, R(0), R(200))>>
      [] h = "genE0_pt_highRange" -> <<Regular(100, R(0), R(1000))>>
      [] h = "genE1_pt_highRange" -> <<Regular(100, R(0), R(1000))>>
      [] h = "genMu0_pt" -> <<Regular(50, R(0), R(100))>>
      [] h = "genMu1_pt" -> <<Regular(50, R(0), R(100))>>
      [] h = "genMu0_pt_highRange" -> <<Regular(100, R(0), R(1000))>>
      [] h = "genMu1_pt_highRange" -> <<Regular(100, R(0), R(1000))>>
      [] h = "genE_genE_dR" -> <<Regular(50, R(0), R(1))>>
      [] h = "genE_genE_pt" -> <<Regular(100, R(0), R(200))>>
      [] h = "genMu_genMu_dR" -> <<Regular(50, R(0), R(1))>>
      [] h = "genMu_genMu_pt" -> <<Regular(100, R(0), R(200))>>
      [] h = "electron_eta_phi" -> <<Regular(50, R(-3), R(3)), Regular(50, Sub(R(0), Pi), Pi)>>
      [] h = "photon_eta_phi" -> <<Regular(50, R(-3), R(3)), Regular(50, Sub(R(0), Pi), Pi)>>
      [] h = "muon_eta_phi" -> <<Regular(50, R(-3), R(3)), Regular(50, Sub(R(0), Pi), Pi)>>
      [] h = "dsaMuon_eta_phi" -> <<Regular(50, R(-3), R(3)), Regular(50, Sub(R(0), Pi), Pi)>>
      [] h = "ljsource_eta_phi" -> <<Regular(50, R(-3), R(3)), Regular(50, Sub(R(0), Pi), Pi)>>

\* the fill function of axis i of a histogram, applied to (objs, mask)
FillFunc(h, i, o, m) ==
    CASE h = "pv_n" -> pv_n_fill(o, m)
      [] h = "lj_n" -> lj_n_fill(o, m)
      [] h = "lj_pt" -> lj_pt_fill(o, m)
      [] h = "lj0_pfIsolation05" -> lj0_pfIsolation05_fill(o, m)
      [] h = "lj1_pfIsolation05" -> lj1_pfIsolation05_fill(o, m)
      [] h = "lj0_pt" -> lj0_pt_fill(o, m)
      [] h = "lj1_pt" -> lj1_pt_fill(o, m)
      [] h = "lj_eta_phi" -> IF i = 1 THEN lj_eta_fill(o, m) ELSE lj_phi_fill(o, m)
      [] h = "ljsource_charge" -> ljsource_charge_fill(o, m)
      [] h = "ljsource_type" -> ljsource_type_fill(o, m)
      [] h = "lj_lj_absdphi" -> lj_lj_absdphi_fill(o, m)
      [] h = "abcd_lj_lj_dphi_vs_lj0_pfIsolationPt05" ->
            IF i = 1 THEN abcd_absdphi_fill(o, m) ELSE abcd_iso_fill(o, m)
      [] h = "genA_n" -> genA_n_fill(o, m)
      [] h = "genA_eta_phi" -> IF i = 1 THEN genA_eta_fill(o, m) ELSE genA_phi_fill(o, m)
      [] h = "genA_genA_dphi" -> genA_genA_dphi_fill(o, m)
      [] h = "lj_genA_ptRatio" -> lj_genA_ptRatio_fill(o, m)
      [] h = "lj0_e" -> Field(MaskIndex(o["ljs"], m, 0), "e")
      [] h = "lj1_e" -> Field(MaskIndex(o["ljs"], m, 1), "e")
      [] h = "lj_lj_invmass" -> MassArr(P4Sum(SliceTwo(o["ljs"], m)))
      [] h = "lj_lj_invmass_lowRange" -> MassArr(P4Sum(SliceTwo(o["ljs"], m)))
      [] h = "genE0_pt" -> Field(MaskIndex(o["genEs"], m, 0), "pt")
      [] h = "genE1_pt" -> Field(MaskIndex(o["genEs"], m, 1), "pt")
      [] h = "genE0_pt_highRange" -> Field(MaskIndex(o["genEs"], m, 0), "pt")
      [] h = "genE1_pt_highRange" -> Field(MaskIndex(o["genEs"], m, 1), "pt")
      [] h = "genMu0_pt" -> Field(MaskIndex(o["genMus"], m, 0), "pt")
      [] h = "genMu1_pt" -> Field(MaskIndex(o["genMus"], m, 1), "pt")
      [] h = "genMu0_pt_highRange" -> Field(MaskIndex(o["genMus"], m, 0), "pt")
      [] h = "genMu1_pt_highRange" -> Field(MaskIndex(o["genMus"], m, 1), "pt")
      [] h = "genE_genE_dR" -> DeltaRArr(MaskIndex(o["genEs"], m, 1), MaskIndex(o["genEs"], m, 0))
      [] h = "genE_genE_pt" -> PtArr(P4Sum(SliceTwo(o["genEs"], m)))
      [] h = "genMu_genMu_dR" -> DeltaRArr(MaskIndex(o["genMus"], m, 1), MaskIndex(o["genMus"], m, 0))
      [] h = "genMu_genMu_pt" -> PtArr(P4Sum(SliceTwo(o["genMus"], m)))
      [] h = "electron_eta_phi" -> IF i = 1 THEN Field(Ragged(o["electrons"]), "eta") ELSE electron_phi_fill(o, m)
      [] h = "photon_eta_phi" -> IF i = 1 THEN Field(Ragged(o["photons"]), "eta") ELSE Field(Ragged(o["photons"]), "phi")
      [] h = "muon_eta_phi" -> IF i = 1 THEN Field(Ragged(o["muons"]), "eta") ELSE Field(Ragged(o["muons"]), "phi")
      [] h = "dsaMuon_eta_phi" -> IF i = 1 THEN Field(Ragged(o["dsaMuons"]), "eta") ELSE Field(Ragged(o["dsaMuons"]), "phi")
      [] h = "ljsource_eta_phi" -> IF i = 1 THEN Field(Ragged(o["ljsources"]), "eta") ELSE Field(Ragged(o["ljsources"]), "phi")

\* histograms declared with an evt_mask
HasEvtMask(h) == h \in {"lj0_pfIsolation05", "lj1_pfIsolation05",
                        "lj0_pt", "lj1_pt", "lj_lj_absdphi",
                        "abcd_lj_lj_dphi_vs_lj0_pfIsolationPt05",
                        "genA_genA_dphi", "lj0_e", "lj1_e", "lj_lj_invmass",
                        "lj_lj_invmass_lowRange", "genE0_pt", "genE1_pt",
                        "genE0_pt_highRange", "genE1_pt_highRange",
                        "genE_genE_dR", "genE_genE_pt", "genMu0_pt",
                        "genMu1_pt", "genMu0_pt_highRange",
                        "genMu1_pt_highRange", "genMu_genMu_dR",
                        "genMu_genMu_pt"}

\* number of events of a batch (all collections share the outer length)
NEvents(o) == Len(o["ljs"])

\* the event predicate of a histogram; without evt_mask all events pass
EvtMask(h, o) ==
    CASE h = "lj0_pfIsolation05" -> lj0_pfIsolation05_evt_mask(o)
      [] h = "lj1_pfIsolation05" -> lj1_pfIsolation05_evt_mask(o)
      [] h = "lj0_pt" -> lj0_pt_evt_mask(o)
      [] h = "lj1_pt" -> lj1_pt_evt_mask(o)
      [] h = "lj_lj_absdphi" -> lj_lj_absdphi_evt_mask(o)
      [] h = "abcd_lj_lj_dphi_vs_lj0_pfIsolationPt05" -> abcd_evt_mask(o)
      [] h = "genA_genA_dphi" -> genA_genA_dphi_evt_mask(o)
      [] h = "lj0_e" -> [e \in 1..Len(o["ljs"]) |-> Len(o["ljs"][e]) > 0]
      [] h = "lj1_e" -> [e \in 1..Len(o["ljs"]) |-> Len(o["ljs"][e]) > 1]
      [] h = "lj_lj_invmass" -> [e \in 1..Len(o["ljs"]) |-> Len(o["ljs"][e]) > 1]
      [] h = "lj_lj_invmass_lowRange" -> [e \in 1..Len(o["ljs"]) |-> Len(o["ljs"][e]) > 1]
      [] h = "genE0_pt" -> [e \in 1..Len(o["genEs"]) |-> Len(o["genEs"][e]) > 0]
      [] h = "genE1_pt" -> [e \in 1..Len(o["genEs"]) |-> Len(o["genEs"][e]) > 1]
      [] h = "genE0_pt_highRange" -> [e \in 1..Len(o["genEs"]) |-> Len(o["genEs"][e]) > 0]
      [] h = "genE1_pt_highRange" -> [e \in 1..Len(o["genEs"]) |-> Len(o["genEs"][e]) > 1]
      [] h = "genMu0_pt" -> [e \in 1..Len(o["genMus"]) |-> Len(o["genMus"][e]) > 0]
      [] h = "genMu1_pt" -> [e \in 1..Len(o["genMus"]) |-> Len(o["genMus"][e]) > 1]
      [] h = "genMu0_pt_highRange" -> [e \in 1..Len(o["genMus"]) |-> Len(o["genMus"][e]) > 0]
      [] h = "genMu1_pt_highRange" -> [e \in 1..Len(o["genMus"]) |-> Len(o["genMus"][e]) > 1]
      [] h = "genE_genE_dR" -> [e \in 1..Len(o["genEs"]) |-> Len(o["genEs"][e]) > 1]
      [] h = "genE_genE_pt" -> [e \in 1..Len(o["genEs"]) |-> Len(o["genEs"][e]) > 1]
      [] h = "genMu_genMu_dR" -> [e \in 1..Len(o["genMus"]) |-> Len(o["genMus"][e]) > 1]
      [] h = "genMu_genMu_pt" -> [e \in 1..Len(o["genMus"]) |-> Len(o["genMus"][e]) > 1]
      [] OTHER -> AllPass(NEvents(o))

\* the collections a histogram's functions read
Reads(h) ==
    CASE h = "pv_n" -> {"pvs"}
      [] h \in {"ljsource_charge", "ljsource_type", "ljsource_eta_phi"} -> {"ljsources"}
      [] h = "electron_eta_phi" -> {"electrons"}
      [] h = "photon_eta_phi" -> {"photons"}
      [] h = "muon_eta_phi" -> {"muons"}
      [] h = "dsaMuon_eta_phi" -> {"dsaMuons"}
      [] h \in {"genE0_pt", "genE1_pt", "genE0_pt_highRange", "genE1_pt_highRange",
                "genE_genE_dR", "genE_genE_pt"} -> {"genEs"}
      [] h \in {"genMu0_pt", "genMu1_pt", "genMu0_pt_highRange",
                "genMu1_pt_highRange", "genMu_genMu_dR", "genMu_genMu_pt"} -> {"genMus"}
      [] h \in {"genA_n", "genA_eta_phi", "genA_genA_dphi"} -> {"genAs"}
      [] h = "lj_genA_ptRatio" -> {"ljs", "genAs"}
      [] OTHER -> {"ljs"}

\* the <<collection, k>> a histogram's functions select as objs[c][mask, k]
Indexes(h) ==
    CASE h \in {"lj0_pfIsolation05", "lj0_pt", "lj0_e"} -> {<<"ljs", 0>>}
      [] h \in {"lj1_pfIsolation05", "lj1_pt", "lj1_e"} -> {<<"ljs", 1>>}
      [] h \in {"genE0_pt", "genE0_pt_highRange"} -> {<<"genEs", 0>>}
      [] h \in {"genE1_pt", "genE1_pt_highRange"} -> {<<"genEs", 1>>}
      [] h = "genE_genE_dR" -> {<<"genEs", 0>>, <<"genEs", 1>>}
      [] h \in {"genMu0_pt", "genMu0_pt_highRange"} -> {<<"genMus", 0>>}
      [] h \in {"genMu1_pt", "genMu1_pt_highRange"} -> {<<"genMus", 1>>}
      [] h = "genMu_genMu_dR" -> {<<"genMus", 0>>, <<"genMus", 1>>}
      [] h \in {"lj_lj_absdphi", "abcd_lj_lj_dphi_vs_lj0_pfIsolationPt05"} ->
            {<<"ljs", 0>>, <<"ljs", 1>>}
      [] h = "genA_genA_dphi" -> {<<"genAs", 0>>, <<"genAs", 1>>}
      [] OTHER -> {}

\* the collections a histogram's functions slice as objs[c][mask, :2]
Slices(h) ==
    CASE h \in {"lj_lj_invmass", "lj_lj_invmass_lowRange"} -> {"ljs"}
      [] h = "genE_genE_pt" -> {"genEs"}
      [] h = "genMu_genMu_pt" -> {"genMus"}
      [] OTHER -> {}

\* the collections the ragged axes of a histogram are views of, in axis order
Views(h) ==
    CASE h = "electron_eta_phi" -> <<"electrons", "electrons">>
      [] h = "photon_eta_phi" -> <<"photons", "photons">>
      [] h = "muon_eta_phi" -> <<"muons", "muons">>
      [] h = "dsaMuon_eta_phi" -> <<"dsaMuons", "dsaMuons">>
      [] h = "lj_eta_phi" -> <<"ljs", "ljs">>
      [] h = "ljsource_eta_phi" -> <<"ljsources", "ljsources">>
      [] h = "genA_eta_phi" -> <<"genAs", "genAs">>
      [] OTHER -> <<>>

\* the histograms of the registry that select through the mask
IndexedHists == {"lj0_pfIsolation05", "lj1_pfIsolation05", "lj0_pt", "lj1_pt",
                 "lj0_e", "lj1_e", "lj_lj_absdphi", "lj_lj_invmass",
                 "lj_lj_invmass_lowRange",
                 "abcd_lj_lj_dphi_vs_lj0_pfIsolationPt05",
                 "genE0_pt", "genE1_pt", "genE0_pt_highRange",
                 "genE1_pt_highRange", "genE_genE_dR", "genE_genE_pt",
                 "genMu0_pt", "genMu1_pt", "genMu0_pt_highRange",
                 "genMu1_pt_highRange", "genMu_genMu_dR", "genMu_genMu_pt",
                 "genA_genA_dphi"}

\* the histograms of the registry with more than one axis
MultiAxisHists == {"electron_eta_phi", "photon_eta_phi", "muon_eta_phi",
                   "dsaMuon_eta_phi", "lj_eta_phi", "ljsource_eta_phi",
                   "abcd_lj_lj_dphi_vs_lj0_pfIsolationPt05", "genA_eta_phi"}

\* all histograms of the registry that are modelled
Registered == HistNames \cup IndexedHists \cup MultiAxisHists

-----------------------------------------------------------------------------
(* Histograms a caller constructs outside the registry: h.Histogram takes  *)
(* any list of axes and any evt_mask, so an axis of the registry can be    *)
(* paired with a predicate that does not guarantee the index it selects,   *)
(* and two ragged axes with views of different collections.                *)

CallerHists == {"lj0_pfIsolation05_no_evt_mask",
                "lj1_pfIsolation05_evt_mask_gt0",
                "lj0_lj1_pfIsolation05_evt_mask_gt0",
                "lj0_pfIsolation05_evt_mask_genAs",
                "lj_eta_genA_phi",
                "lj_eta_genA_phi_evt_mask_gt0"}

CallerAxes(h) ==
    CASE h = "lj0_pfIsolation05_no_evt_mask" -> <<lj0_pfIsolation05_axis>>
      [] h = "lj1_pfIsolation05_evt_mask_gt0" -> <<lj1_pfIsolation05_axis>>
      [] h = "lj0_lj1_pfIsolation05_evt_mask_gt0" ->
            <<lj0_pfIsolation05_axis, lj1_pfIsolation05_axis>>
      [] h = "lj0_pfIsolation05_evt_mask_genAs" -> <<lj0_pfIsolation05_axis>>
      [] h = "lj_eta_genA_phi" -> <<lj_eta_axis, genA_phi_axis>>
      [] h = "lj_eta_genA_phi_evt_mask_gt0" -> <<lj_eta_axis, genA_phi_axis>>

CallerFill(h, i, o, m) ==
    CASE h = "lj0_pfIsolation05_no_evt_mask" -> lj0_pfIsolation05_fill(o, m)
      [] h = "lj1_pfIsolation05_evt_mask_gt0" -> lj1_pfIsolation05_fill(o, m)
      [] h = "lj0_lj1_pfIsolation05_evt_mask_gt0" ->
            IF i = 1 THEN lj0_pfIsolation05_fill(o, m)
            ELSE lj1_pfIsolation05_fill(o, m)
      [] h = "lj0_pfIsolation05_evt_mask_genAs" -> lj0_pfIsolation05_fill(o, m)
      [] h = "lj_eta_genA_phi" ->
            IF i = 1 THEN lj_eta_fill(o, m) ELSE genA_phi_fill(o, m)
      [] h = "lj_eta_genA_phi_evt_mask_gt0" ->
            IF i = 1 THEN lj_eta_fill(o, m) ELSE genA_phi_fill(o, m)

CallerMask(h, o) ==
    CASE h = "lj1_pfIsolation05_evt_mask_gt0" -> lj0_pfIsolation05_evt_mask(o)
      [] h = "lj0_lj1_pfIsolation05_evt_mask_gt0" -> lj0_pfIsolation05_evt_mask(o)
      [] h = "lj0_pfIsolation05_evt_mask_genAs" -> genA_genA_dphi_evt_mask(o)
      [] h = "lj_eta_genA_phi_evt_mask_gt0" -> lj0_pfIsolation05_evt_mask(o)
      [] OTHER -> AllPass(NEvents(o))

CallerReads(h) ==
    IF h \in {"lj0_pfIsolation05_no_evt_mask", "lj1_pfIsolation05_evt_mask_gt0",
              "lj0_lj1_pfIsolation05_evt_mask_gt0"}
    THEN {"ljs"} ELSE {"ljs", "genAs"}

CallerIndexes(h) ==
    CASE h = "lj0_pfIsolation05_no_evt_mask" -> {<<"ljs", 0>>}
      [] h = "lj1_pfIsolation05_evt_mask_gt0" -> {<<"ljs", 1>>}
      [] h = "lj0_lj1_pfIsolation05_evt_mask_gt0" -> {<<"ljs", 0>>, <<"ljs", 1>>}
      [] h = "lj0_pfIsolation05_evt_mask_genAs" -> {<<"ljs", 0>>}
      [] OTHER -> {}

\* the collections the ragged axes of a histogram are views of, in axis order
CallerViews(h) ==
    IF h \in {"lj_eta_genA_phi", "lj_eta_genA_phi_evt_mask_gt0"}
    THEN <<"ljs", "genAs">> ELSE <<>>

\* the histogram object named h: its axes, fill functions and predicate
HistAxes(h) == IF h \in CallerHists THEN CallerAxes(h) ELSE Axes(h)
HistFill(h, i, o, m) ==
    IF h \in CallerHists THEN CallerFill(h, i, o, m) ELSE FillFunc(h, i, o, m)
HistMask(h, o) == IF h \in CallerHists THEN CallerMask(h, o) ELSE EvtMask(h, o)
HistReads(h) == IF h \in CallerHists THEN CallerReads(h) ELSE Reads(h)
HistIndexes(h) == IF h \in CallerHists THEN CallerIndexes(h) ELSE Indexes(h)
HistViews(h) == IF h \in CallerHists THEN CallerViews(h) ELSE Views(h)

NAxes(h) == Len(HistAxes(h))

-----------------------------------------------------------------------------
(* The fill engine: mask, alignment and broadcast, storage increment.      *)

RECURSIVE Flatten(_)
Flatten(ss) == IF Len(ss) = 0 THEN <<>> ELSE Head(ss) \o Flatten(Tail(ss))

\* the entries of a per-event sequence that belong to passing events
SelectPassing(d, m) ==
    LET p == Passing(m, 1) IN [j \in 1..Len(p) |-> d[p[j]]]

\* drop the entries of non-passing events; values a fill function selected
\* through the mask are already restricted to the passing events
ApplyMask(a, m) ==
    IF Len(a.data) = Len(m) THEN [a EXCEPT !.data = SelectPassing(a.data, m)]
    ELSE a

InnerLens(a) == [i \in 1..Len(a.data) |-> Len(a.data[i])]

\* repeat the per-event scalar d[i] lens[i] times
Broadcast(d, lens) == [i \in 1..Len(d) |-> [j \in 1..lens[i] |-> d[i]]]

NoFlat == [ok |-> TRUE, vals |-> <<>>, w |-> <<>>]

\* mutant: ragged axes of different inner lengths are zipped position by
\* position, the longer one truncated
Align_zip(vs, wm) ==
    LET rag == {i \in 1..Len(vs) : vs[i].ndim = 2}
    IN  IF rag = {}
        THEN [ok |-> TRUE, vals |-> [i \in 1..Len(vs) |-> vs[i].data],
              w |-> wm]
        ELSE LET lens == [e \in 1..Len(wm) |->
                            CHOOSE n \in 0..(MaxObjs + 1) :
                                /\ \A i \in rag : n <= Len(vs[i].data[e])
                                /\ \E i \in rag : n = Len(vs[i].data[e])]
             IN  [ok |-> TRUE,
                  vals |-> [i \in 1..Len(vs) |->
                              IF i \in rag
                              THEN Flatten([e \in 1..Len(wm) |->
                                              SubSeq(vs[i].data[e], 1, lens[e])])
                              ELSE Flatten(Broadcast(vs[i].data, lens))],
                  w |-> Flatten(Broadcast(wm, lens))]
\* vs: the masked values of every axis; wm: the masked per-event weights.
\* The result has one flat vector per axis and the flat weights.
Align(vs, wm) ==
    LET rag == {i \in 1..Len(vs) : vs[i].ndim = 2}
    IN  IF rag = {}
        THEN [ok |-> TRUE, vals |-> [i \in 1..Len(vs) |-> vs[i].data],
              w |-> wm]
        ELSE IF \E i, k \in rag : InnerLens(vs[i]) # InnerLens(vs[k])
        THEN [ok |-> FALSE, vals |-> <<>>, w |-> <<>>]
        ELSE LET lens == InnerLens(vs[CHOOSE i \in rag : TRUE])
             IN  [ok |-> TRUE,
                  vals |-> [i \in 1..Len(vs) |->
                              IF i \in rag THEN Flatten(vs[i].data)
                              ELSE Flatten(Broadcast(vs[i].data, lens))],
                  w |-> Flatten(Broadcast(wm, lens))]

\* storage: a set of cells [cell, sw, sw2, n]; a cell never filled is absent
EmptyStorage == {}
Cells(s) == {e.cell : e \in s}
Get(s, c) ==
    IF c \in Cells(s) THEN CHOOSE e \in s : e.cell = c
    ELSE [cell |-> c, sw |-> 0, sw2 |-> 0, n |-> 0]
AddEntry(s, c, w) ==
    LET old == Get(s, c)
    IN  (s \ {old}) \cup {[cell |-> c, sw |-> old.sw + w,
                           sw2 |-> old.sw2 + w * w, n |-> old.n + 1]}

BinTuple(axes, vals, j) == [i \in 1..Len(axes) |-> Index(axes[i], vals[i][j])]

\* increment(flat values per axis, flat weights), entries j..L
RECURSIVE Increment(_, _, _, _)
Increment(s, axes, fl, j) ==
    IF j > Len(fl.w) THEN s
    ELSE Increment(AddEntry(s, BinTuple(axes, fl.vals, j), fl.w[j]), axes, fl, j + 1)

\* merge(other): cellwise sum
Merge(s1, s2) ==
    {[cell |-> c, sw |-> Get(s1, c).sw + Get(s2, c).sw,
      sw2 |-> Get(s1, c).sw2 + Get(s2, c).sw2,
      n |-> Get(s1, c).n + Get(s2, c).n] : c \in Cells(s1) \cup Cells(s2)}

FillArgs(h, o, m) == [i \in 1..NAxes(h) |-> HistFill(h, i, o, m)]

\* one whole fill call: the storage after it and the error it raised
Fill(h, o, w, s) ==
    LET m == HistMask(h, o)
        args == FillArgs(h, o, m)
    IN  IF \E i \in 1..Len(args) : ~args[i].ok
        THEN [err |-> "IndexError", storage |-> s]
        ELSE LET al == Align([i \in 1..Len(args) |-> ApplyMask(args[i], m)],
                             SelectPassing(w, m))
             IN  IF ~al.ok THEN [err |-> "ConfigurationError", storage |-> s]
                 ELSE [err |-> "none", storage |-> Increment(s, HistAxes(h), al, 1)]

-----------------------------------------------------------------------------
(* Inputs: the batches a fill is given.                                    *)

ljX == [pt |-> R(5), eta |-> R(-3), phi |-> Q(1, 2), iso |-> Q(1, 10),
        iso05 |-> Q(1, 20),
        px |-> R(4), py |-> R(2), pz |-> R(-50), e |-> R(51)]
ljY == [pt |-> R(7), eta |-> R(3), phi |-> R(-3), iso |-> Q(8, 10),
        iso05 |-> Q(3, 10),
        px |-> R(-7), py |-> R(-1), pz |-> R(70), e |-> R(71)]
srcX == [charge |-> R(-1), type |-> R(2), eta |-> R(1), phi |-> R(1)]
srcY == [charge |-> R(1), type |-> R(5), eta |-> R(-1), phi |-> R(-2)]
\* an electron, photon, muon or generator lepton
partX == [pt |-> R(5), eta |-> R(0), phi |-> Q(13, 14),
          px |-> R(3), py |-> R(4), pz |-> R(0), e |-> R(5)]
partY == [pt |-> R(10), eta |-> R(0), phi |-> Q(3, 14),
          px |-> R(10), py |-> R(2), pz |-> R(0), e |-> R(11)]
genX == [pt |-> R(7), eta |-> R(0), phi |-> R(0)]
genY == [pt |-> R(10), eta |-> R(3), phi |-> R(-3)]
pvX == [z |-> R(0)]

Pool(c) ==
    CASE c = "ljs" -> {ljX, ljY}
      [] c = "ljsources" -> {srcX, srcY}
      [] c = "genAs" -> {genX, genY}
      [] c = "pvs" -> {pvX}
      [] c \in {"electrons", "photons", "muons", "dsaMuons", "genEs", "genMus"} ->
            {partX, partY}

\* the collections of a batch
Colls == {"pvs", "electrons", "photons", "muons", "dsaMuons", "ljs",
          "ljsources", "genEs", "genMus", "genAs"}

\* the list of n objects x, y, x, y, ...
Alt(x, y, n) == [i \in 1..n |-> IF i % 2 = 1 THEN x ELSE y]

\* the object lists an event may hold in collection c: up to MaxObjs objects
\* of one kind or of two alternating kinds; an event has either no generator
\* dark photon or two
Shapes(c) ==
    IF c = "genAs" THEN {<<>>, <<genX, genY>>}
    ELSE {Alt(x, y, k) : x \in Pool(c), y \in Pool(c), k \in 0..MaxObjs}

\* a collection the histogram does not read: one object in every event
Background(c, n) == [i \in 1..n |-> <<CHOOSE x \in Pool(c) : TRUE>>]

\* for the other runs an event holds a prefix of one fixed list of objects
MergeShapes(c) ==
    CASE c = "ljs" -> {Alt(ljY, ljX, k) : k \in 0..MaxObjs}
      [] c = "ljsources" -> {Alt(srcX, srcY, k) : k \in 0..MaxObjs}
      [] c = "pvs" -> {Alt(pvX, pvX, k) : k \in 0..MaxObjs}
      [] c = "genAs" -> {<<>>, <<genX, genY>>}

\* an event holds the first k of MaxObjs objects of two alternating kinds
PrefixShapes(c) ==
    LET x == CHOOSE x \in Pool(c) : TRUE
        y == CHOOSE y \in Pool(c) : Pool(c) = {x, y}
    IN  {Alt(x, y, k) : k \in 0..MaxObjs}

\* the per-event object lists of the domain dom ("fill", "merge", "caller",
\* "registry")
ShapesOf(dom, c) ==
    CASE dom = "fill" -> Shapes(c)
      [] dom = "registry" -> PrefixShapes(c)
      [] OTHER -> MergeShapes(c)

Choices(dom, h, c, n) ==
    IF c \in HistReads(h) THEN [1..n -> ShapesOf(dom, c)]
    ELSE {Background(c, n)}

\* objs is a batch of n events for histogram h, its events drawn from dom;
\* the batches of the domain "registry" hold all collections, the others the
\* four collections their histograms read
IsBatch(dom, h, n) ==
    \E a \in Choices(dom, h, "pvs", n), b \in Choices(dom, h, "ljs", n),
       c \in Choices(dom, h, "ljsources", n), d \in Choices(dom, h, "genAs", n) :
        IF dom = "registry"
        THEN \E el \in Choices(dom, h, "electrons", n),
                ph \in Choices(dom, h, "photons", n),
                mu \in Choices(dom, h, "muons", n),
                dsa \in Choices(dom, h, "dsaMuons", n),
                ge \in Choices(dom, h, "genEs", n),
                gm \in Choices(dom, h, "genMus", n) :
                 objs = [pvs |-> a, ljs |-> b, ljsources |-> c, genAs |-> d,
                         electrons |-> el, photons |-> ph, muons |-> mu,
                         dsaMuons |-> dsa, genEs |-> ge, genMus |-> gm]
        ELSE objs = [pvs |-> a, ljs |-> b, ljsources |-> c, genAs |-> d]

\* three events with 0, 1 and 2 lepton jets, leading pT 5.0 and 7.0
ScenarioBatch ==
    [pvs |-> Background("pvs", 3),
     ljs |-> <<<<>>, <<ljX>>, <<ljY, ljX>>>>,
     ljsources |-> Background("ljsources", 3),
     genAs |-> Background("genAs", 3)]

\* uniform weight 1, or a weight collection with a different weight per event
WeightChoices(n) == {[i \in 1..n |-> 1], [i \in 1..n |-> i]}

InitInput(dom) ==
    /\ hname \in HistNames
    /\ \/ \E n \in 1..MaxEvents : IsBatch(dom, hname, n)
       \/ objs = ScenarioBatch
    /\ weights \in WeightChoices(NEvents(objs))

IdleFill ==
    /\ pc = "idle"
    /\ mask = <<>>
    /\ calls = <<>>
    /\ raw = <<>>
    /\ flat = NoFlat
    /\ storage = EmptyStorage

IdleMerge ==
    /\ assign = <<>>
    /\ pool = {}

IdleBin ==
    /\ bax = lj_pt_axis
    /\ bval = R(0)
    /\ bidx = 0
    /\ bpc = "idle"

-----------------------------------------------------------------------------
(* Spec: one fill call of a histogram on a batch, step by step.            *)

Init ==
    /\ InitInput("fill")
    /\ IdleFill /\ IdleMerge /\ IdleBin

\* the event predicate is evaluated
EvalMask ==
    /\ pc = "idle"
    /\ mask' = HistMask(hname, objs)
    /\ calls' = Append(calls, [op |-> "evt_mask", axis |-> 0, arg |-> <<>>])
    /\ pc' = "masked"
    /\ UNCHANGED <<raw, flat, storage>>
    /\ UNCHANGED <<inputVars, mergeVars, binVars>>

\* mutant: the predicate is evaluated again before every axis
EvalAxis_reeval ==
    /\ pc = "masked"
    /\ Len(raw) < NAxes(hname)
    /\ LET i == Len(raw) + 1
           m == HistMask(hname, objs)
           v == HistFill(hname, i, objs, m)
       IN  /\ raw' = Append(raw, v)
           /\ calls' = calls \o <<[op |-> "evt_mask", axis |-> 0, arg |-> <<>>],
                                  [op |-> "fill_func", axis |-> i, arg |-> m]>>
           /\ pc' = IF ~v.ok THEN "IndexError"
                    ELSE IF i = NAxes(hname) THEN "evaluated" ELSE "masked"
    /\ UNCHANGED <<mask, flat, storage>>
    /\ UNCHANGED <<inputVars, mergeVars, binVars>>

\* the fill function of the next axis is called with (objs, mask)
EvalAxis ==
    /\ pc = "masked"
    /\ Len(raw) < NAxes(hname)
    /\ LET i == Len(raw) + 1
           v == HistFill(hname, i, objs, mask)
       IN  /\ raw' = Append(raw, v)
           /\ calls' = Append(calls, [op |-> "fill_func", axis |-> i, arg |-> mask])
           /\ pc' = IF ~v.ok THEN "IndexError"
                    ELSE IF i = NAxes(hname) THEN "evaluated" ELSE "masked"
    /\ UNCHANGED <<mask, flat, storage>>
    /\ UNCHANGED <<inputVars, mergeVars, binVars>>

\* mask, broadcast and flatten the values of all axes and the weights
AlignStep ==
    /\ pc = "evaluated"
    /\ LET al == Align([i \in 1..Len(raw) |-> ApplyMask(raw[i], mask)],
                       SelectPassing(weights, mask))
       IN  /\ flat' = al
           /\ pc' = IF al.ok THEN "aligned" ELSE "ConfigurationError"
    /\ UNCHANGED <<mask, calls, raw, storage>>
    /\ UNCHANGED <<inputVars, mergeVars, binVars>>

\* the storage increments its bins
IncrementStep ==
    /\ pc = "aligned"
    /\ storage' = Increment(storage, HistAxes(hname), flat, 1)
    /\ pc' = "done"
    /\ UNCHANGED <<mask, calls, raw, flat>>
    /\ UNCHANGED <<inputVars, mergeVars, binVars>>

Next == EvalMask \/ EvalAxis \/ AlignStep \/ IncrementStep

Spec == Init /\ [][Next]_vars

-----------------------------------------------------------------------------
(* SpecMerge: workers fill private empty storages from disjoint parts of   *)
(* one batch and the partial storages are merged pairwise in any order.    *)

Parts == {"A", "B", "C"}

\* the events of a batch assigned to the workers in P, in event order
RECURSIVE EventsOf(_, _, _)
EventsOf(as, P, i) ==
    IF i > Len(as) THEN <<>>
    ELSE IF as[i] \in P THEN <<i>> \o EventsOf(as, P, i + 1)
    ELSE EventsOf(as, P, i + 1)

Restrict(o, idx) == [c \in DOMAIN o |-> [j \in 1..Len(idx) |-> o[c][idx[j]]]]
RestrictW(w, idx) == [j \in 1..Len(idx) |-> w[idx[j]]]

\* the storage a fresh histogram holds after one fill of the events of P
FillOf(P) ==
    LET idx == EventsOf(assign, P, 1)
    IN  Fill(hname, Restrict(objs, idx), RestrictW(weights, idx), EmptyStorage)

Covered == UNION {x.cover : x \in pool}

\* the workers are interchangeable: they are named in the order of their
\* first event
InitMerge ==
    /\ InitInput("merge")
    /\ assign \in [1..NEvents(objs) -> Parts]
    /\ assign[1] = "A"
    /\ \A i \in 1..NEvents(objs) :
          assign[i] = "C" => \E j \in 1..(i - 1) : assign[j] = "B"
    /\ pool = {}
    /\ IdleFill /\ IdleBin

\* worker p fills its private storage from its part of the batch
FillPart(p) ==
    /\ p \notin Covered
    /\ pool' = pool \cup {[cover |-> {p}, store |-> FillOf({p}).storage]}
    /\ UNCHANGED <<assign, inputVars, fillVars, binVars>>

\* x.merge(y) for two partial storages
MergeTwo(x, y) ==
    /\ x # y
    /\ pool' = (pool \ {x, y}) \cup
               {[cover |-> x.cover \cup y.cover, store |-> Merge(x.store, y.store)]}
    /\ UNCHANGED <<assign, inputVars, fillVars, binVars>>

NextMerge ==
    \/ \E p \in Parts : FillPart(p)
    \/ \E x, y \in pool : MergeTwo(x, y)

SpecMerge == InitMerge /\ [][NextMerge]_vars

-----------------------------------------------------------------------------
(* SpecCaller: one fill call of a histogram constructed outside the        *)
(* registry, with the steps of Spec.                                       *)

InitCaller ==
    /\ hname \in CallerHists
    /\ \E n \in 1..MaxEvents : IsBatch("caller", hname, n)
    /\ weights \in WeightChoices(NEvents(objs))
    /\ IdleFill /\ IdleMerge /\ IdleBin

SpecCaller == InitCaller /\ [][Next]_vars

-----------------------------------------------------------------------------
(* SpecRegistry: one fill call of any histogram of the registry on a batch *)
(* with any object counts, with the steps of Spec.                         *)

InitRegistry ==
    /\ hname \in Registered
    /\ \E n \in 1..MaxEvents : IsBatch("registry", hname, n)
    /\ weights \in WeightChoices(NEvents(objs))
    /\ IdleFill /\ IdleMerge /\ IdleBin

SpecRegistry == InitRegistry /\ [][Next]_vars

-----------------------------------------------------------------------------
(* SpecBin: one bin lookup of a value on an axis of the registry.          *)

BinAxes == {pv_n_axis, lj_n_axis, lj_pt_axis, lj_eta_axis, abcd_iso_axis,
            ljsource_charge_axis, ljsource_type_axis, genA_n_axis,
            lj_genA_ptRatio_axis}

BinValues == {Norm(n, 2) : n \in -8..22} \cup {R(50), R(99), R(100), R(101), Q(8, 10), NaN}

InitBin ==
    /\ bax \in BinAxes
    /\ bval \in BinValues
    /\ bidx = 0
    /\ bpc = "idle"
    /\ hname = "lj_pt"
    /\ objs = ScenarioBatch
    /\ weights = <<1, 1, 1>>
    /\ IdleFill /\ IdleMerge

Lookup ==
    /\ bpc = "idle"
    /\ bidx' = Index(bax, bval)
    /\ bpc' = "done"
    /\ UNCHANGED <<bax, bval, inputVars, fillVars, mergeVars>>

NextBin == Lookup

SpecBin == InitBin /\ [][NextBin]_vars

-----------------------------------------------------------------------------
(* Properties                                                              *)

Errors == {"IndexError", "ConfigurationError"}

RECURSIVE SumN(_)
SumN(s) ==
    IF s = {} THEN 0
    ELSE LET e == CHOOSE x \in s : TRUE IN e.n + SumN(s \ {e})

\* number of entries a storage holds, underflow and overflow included
TotalEntries(s) == SumN(s)

RECURSIVE SumLens(_, _)
SumLens(coll, i) ==
    IF i > Len(coll) THEN 0 ELSE Len(coll[i]) + SumLens(coll, i + 1)

\* the events of the batch with more than k objects in collection c
RECURSIVE WithMoreThan(_, _, _)
WithMoreThan(coll, k, i) ==
    IF i > Len(coll) THEN <<>>
    ELSE IF Len(coll[i]) > k THEN <<i>> \o WithMoreThan(coll, k, i + 1)
    ELSE WithMoreThan(coll, k, i + 1)

\* C1: in every pool of partial storages, a storage obtained by merging the
\* storages of a set of workers, in whatever order and grouping, equals cell
\* for cell the storage of one fill of the union of their parts; merging all
\* parts gives the storage of one fill of the whole batch.
C1_MergeReproducesFill ==
    \A x \in pool :
        /\ x.store = FillOf(x.cover).storage
        /\ x.cover = Parts => x.store = Fill(hname, objs, weights, EmptyStorage).storage

\* C1 witness: all parts merged, at least two of them non-empty, with
\* per-event weights that differ and a non-empty result
C1_Witness ==
    /\ \E x \in pool : x.cover = Parts /\ x.store # {}
    /\ Cardinality({assign[i] : i \in 1..Len(assign)}) >= 2
    /\ \E i, j \in 1..Len(weights) : weights[i] # weights[j]

CountHists == {"pv_n", "lj_n", "genA_n"}

\* C2: after one fill of an object-count histogram (one scalar per event, no
\* predicate) into an empty storage, the entry counts of all bins sum to the
\* number of events of the batch; and no fill of any histogram drops an
\* entry: the bins, underflow and overflow included, hold as many entries as
\* the flat vectors have positions.
C2_CountEqualsBatchSize ==
    /\ pc = "done" => TotalEntries(storage) = Len(flat.w)
    /\ hname \in CountHists =>
          /\ ~HasEvtMask(hname)
          /\ pc \notin Errors
          /\ \A i \in 1..Len(raw) : raw[i].ndim = 1
          /\ pc = "done" => TotalEntries(storage) = NEvents(objs)

\* C2 witness: lj_n filled from two events with different object counts
C2_Witness ==
    /\ hname = "lj_n" /\ pc = "done"
    /\ NEvents(objs) = 2
    /\ Len(objs["ljs"][1]) # Len(objs["ljs"][2])
    /\ TotalEntries(storage) = 2

EtaPhiHists == {"lj_eta_phi", "genA_eta_phi"}
EtaPhiColl(h) == IF h = "lj_eta_phi" THEN "ljs" ELSE "genAs"

\* C3: one fill of a histogram with two ragged axes over one collection
\* completes and adds as many entries as the passing events (here all events)
\* hold objects of that collection.
C3_EntriesEqualObjectCount ==
    hname \in EtaPhiHists =>
        /\ pc \notin Errors
        /\ pc # "idle" => mask = AllPass(NEvents(objs))
        /\ pc = "done" =>
              TotalEntries(storage) = SumLens(objs[EtaPhiColl(hname)], 1)

\* C3 witness: the entry count differs from the batch size and from the
\* object count of the other collection
C3_Witness ==
    /\ hname = "lj_eta_phi" /\ pc = "done"
    /\ TotalEntries(storage) > 0
    /\ TotalEntries(storage) # NEvents(objs)
    /\ TotalEntries(storage) # SumLens(objs["genAs"], 1)

\* the multiplicity K the predicate of a histogram requires of "ljs"
RequiredK(h) == IF h = "lj0_pt" THEN 1 ELSE 2

\* C4: a fill of a histogram with predicate count(ljs) >= K completes, and
\* the storage after it is the storage of a fill of the batch with the events
\* of fewer than K objects removed; the entries are as many as the events
\* with at least K objects.
C4_FewerThanKContributeNothing ==
    HasEvtMask(hname) =>
        /\ pc \notin Errors
        /\ pc = "done" =>
              LET keep == WithMoreThan(objs["ljs"], RequiredK(hname) - 1, 1)
              IN  /\ storage = Fill(hname, Restrict(objs, keep),
                                    RestrictW(weights, keep), EmptyStorage).storage
                  /\ TotalEntries(storage) = Len(keep)

\* C4 witness: lj1_pt filled from a batch with an event of one object and an
\* event of two
C4_Witness ==
    /\ hname = "lj1_pt" /\ pc = "done"
    /\ \E i, j \in 1..NEvents(objs) :
          Len(objs["ljs"][i]) = 1 /\ Len(objs["ljs"][j]) = 2
    /\ TotalEntries(storage) = 1

LeadHists == {"lj0_pt", "lj1_pt"}
LeadK(h) == IF h = "lj0_pt" THEN 0 ELSE 1

\* the entry of cell c of the storage equals (sum of weights, entries)
CellIs(s, c, sw, n) == Get(s, c).sw = sw /\ Get(s, c).n = n

\* C5: a fill of lj0_pt (k = 0) or lj1_pt (k = 1) completes; its flat vector
\* holds, for the events with more than k lepton jets in event order, the pT
\* of object k, one entry per such event, with that event's weight; every
\* entry is counted in the unit-width bin of its pT.  On the batch with
\* counts [0, 1, 2] and leading pT 5.0 and 7.0, lj0_pt holds two entries, in
\* bins 5 and 7, and lj1_pt holds one entry, from the third event.
C5_LeadingObjectEntries ==
    hname \in LeadHists =>
        LET k == LeadK(hname)
            keep == WithMoreThan(objs["ljs"], k, 1)
            pts == [j \in 1..Len(keep) |-> objs["ljs"][keep[j]][k + 1].pt]
        IN  /\ pc \notin Errors
            /\ pc \in {"aligned", "done"} =>
                  /\ flat.vals = <<pts>>
                  /\ flat.w = [j \in 1..Len(keep) |-> weights[keep[j]]]
            /\ pc = "done" =>
                  /\ TotalEntries(storage) = Len(keep)
                  /\ \A e \in storage :
                        e.n = Cardinality({j \in 1..Len(keep) : <<Floor(pts[j])>> = e.cell})
            /\ (pc = "done" /\ objs = ScenarioBatch) =>
                  IF hname = "lj0_pt"
                  THEN /\ TotalEntries(storage) = 2
                       /\ CellIs(storage, <<5>>, weights[2], 1)
                       /\ CellIs(storage, <<7>>, weights[3], 1)
                  ELSE /\ TotalEntries(storage) = 1
                       /\ CellIs(storage, <<5>>, weights[3], 1)

\* C5 witness: lj0_pt filled from the batch with counts [0, 1, 2]
C5_Witness ==
    /\ hname = "lj0_pt" /\ pc = "done"
    /\ objs = ScenarioBatch
    /\ Cells(storage) = {<<5>>, <<7>>}

\* C6: a fill evaluates the event predicate exactly once, as its first call;
\* every later call is a fill function, called in axis order with the mask
\* that evaluation returned.
C6_MaskOnceBeforeAxes ==
    /\ pc = "idle" <=> calls = <<>>
    /\ calls # <<>> =>
          /\ calls[1].op = "evt_mask"
          /\ mask = EvtMask(hname, objs)
          /\ \A i \in 2..Len(calls) :
                /\ calls[i].op = "fill_func"
                /\ calls[i].axis = i - 1
                /\ calls[i].arg = mask
          /\ Len(raw) = Len(calls) - 1

\* C6 witness: both axes of the ABCD histogram evaluated under a mask that
\* passes some events and fails others
C6_Witness ==
    /\ hname = "abcd_lj_lj_dphi_vs_lj0_pfIsolationPt05" /\ pc = "done"
    /\ Len(calls) = 3
    /\ \E i, j \in 1..Len(mask) : mask[i] /\ ~mask[j]

\* the (event, object) pairs of a collection in event order and, within an
\* event, in object order
RECURSIVE PairsOf(_, _)
PairsOf(coll, i) ==
    IF i > Len(coll) THEN <<>>
    ELSE [k \in 1..Len(coll[i]) |-> <<i, k>>] \o PairsOf(coll, i + 1)

\* C7: after alignment every axis's flat vector and the weight vector have
\* one length; for the eta-phi histograms position j of the eta vector, of
\* the phi vector and of the weight vector is the eta, the phi and the event
\* weight of the j-th (event, object) pair of the collection, so a per-event
\* weight is repeated once per object of its event.
C7_AlignedVectors ==
    pc \in {"aligned", "done"} =>
        /\ \A i \in 1..Len(flat.vals) : Len(flat.vals[i]) = Len(flat.w)
        /\ Len(flat.vals) = NAxes(hname)
        /\ hname \in EtaPhiHists =>
              LET coll == objs[EtaPhiColl(hname)]
                  pairs == PairsOf(coll, 1)
              IN  /\ Len(flat.w) = Len(pairs)
                  /\ \A j \in 1..Len(pairs) :
                        LET o == coll[pairs[j][1]][pairs[j][2]]
                        IN  /\ flat.vals[1][j] = o.eta
                            /\ flat.vals[2][j] = o.phi
                            /\ flat.w[j] = weights[pairs[j][1]]

\* C7 witness: lj_eta_phi aligned for a batch with an event of two different
\* objects and an event of none, under per-event weights that differ
C7_Witness ==
    /\ hname = "lj_eta_phi" /\ pc = "aligned"
    /\ \E i, j \in 1..NEvents(objs) :
          /\ Len(objs["ljs"][i]) = 2 /\ objs["ljs"][i][1] # objs["ljs"][i][2]
          /\ Len(objs["ljs"][j]) = 0
          /\ weights[i] # weights[j]
          /\ weights[i] > 1
    /\ Len(flat.w) = 2

\* a <= b for two values that are numbers
Le(a, b) == ~Lt(b, a)

\* C8: a lookup on a Regular or Integer axis puts a value in [lo, hi) in an
\* in-range bin (lo itself in bin 0), a value below lo in the underflow bin
\* and a value at or above hi in the overflow bin; the axis of
\* ljsource_charge has two in-range bins, -1 in bin 0 and 0 in bin 1, and +1
\* is in its overflow bin.
C8_HalfOpenRanges ==
    /\ Size(ljsource_charge_axis) = 2
    /\ (bpc = "done" /\ bax.kind \in {"Regular", "Integer"} /\ ~IsNaN(bval)) =>
          /\ (Le(bax.lo, bval) /\ Lt(bval, bax.hi)) => bidx \in 0..(Size(bax) - 1)
          /\ bval = bax.lo => bidx = 0
          /\ Lt(bval, bax.lo) => bidx = Underflow
          /\ Le(bax.hi, bval) => bidx = Overflow(bax)
    /\ (bpc = "done" /\ bax = ljsource_charge_axis) =>
          /\ bval = R(-1) => bidx = 0
          /\ bval = R(0) => bidx = 1
          /\ bval = R(1) => bidx = Overflow(bax) /\ bidx = 2

\* C8 witness: charge +1 looked up on the axis of ljsource_charge
C8_Witness ==
    /\ bpc = "done" /\ bax = ljsource_charge_axis
    /\ bval = R(1) /\ bidx = 2

DeclaredTypes == <<2, 3, 4, 8>>

\* C9: on the IntCategory axis of ljsource_type the declared values 2, 3, 4
\* and 8 have four different in-range bins; a lookup of a declared value
\* gives its own bin and a lookup of any other value gives the one "other"
\* bin, which is none of the declared values' bins.
C9_CategoryBins ==
    LET ax == ljsource_type_axis
        binOf == [k \in 1..Len(DeclaredTypes) |-> Index(ax, R(DeclaredTypes[k]))]
    IN  /\ \A k \in 1..Len(DeclaredTypes) : binOf[k] \in 0..(Size(ax) - 1)
        /\ \A k, l \in 1..Len(DeclaredTypes) : k # l => binOf[k] # binOf[l]
        /\ \A k \in 1..Len(DeclaredTypes) : binOf[k] # Overflow(ax)
        /\ (bpc = "done" /\ bax = ax) =>
              IF \E k \in 1..Len(DeclaredTypes) : bval = R(DeclaredTypes[k])
              THEN \E k \in 1..Len(DeclaredTypes) :
                      bval = R(DeclaredTypes[k]) /\ bidx = binOf[k]
              ELSE bidx = Overflow(ax)

\* C9 witness: an undeclared type looked up on the axis of ljsource_type
C9_Witness ==
    /\ bpc = "done" /\ bax = ljsource_type_axis
    /\ bval = R(5) /\ bidx = 4

\* the events with at least one lepton jet and no generator dark photon
RECURSIVE Unmatched(_, _)
Unmatched(o, i) ==
    IF i > NEvents(o) THEN <<>>
    ELSE IF Len(o["ljs"][i]) > 0 /\ Len(o["genAs"][i]) = 0
         THEN <<i>> \o Unmatched(o, i + 1)
         ELSE Unmatched(o, i + 1)

RECURSIVE Others(_, _, _)
Others(n, idx, i) ==
    IF i > n THEN <<>>
    ELSE IF \E j \in 1..Len(idx) : idx[j] = i THEN Others(n, idx, i + 1)
    ELSE <<i>> \o Others(n, idx, i + 1)

\* C10: a fill of lj_genA_ptRatio completes whatever events lack dark
\* photons; every lepton jet of such an event is a not-a-number entry; the
\* storage is the storage of a fill of the other events plus, in the overflow
\* bin, one entry per lepton jet of the events without dark photons, each
\* with its event's weight.
C10_UnmatchedRatioOverflows ==
    hname = "lj_genA_ptRatio" =>
        LET un == Unmatched(objs, 1)
            rest == Others(NEvents(objs), un, 1)
            pairs == PairsOf(objs["ljs"], 1)
            lens == [j \in 1..Len(un) |-> Len(objs["ljs"][un[j]])]
            nanw == Flatten(Broadcast(RestrictW(weights, un), lens))
            nans == [vals |-> <<[j \in 1..Len(nanw) |-> NaN]>>, w |-> nanw]
        IN  /\ pc \notin Errors
            /\ pc \in {"aligned", "done"} =>
                  \A j \in 1..Len(pairs) :
                      IsNaN(flat.vals[1][j]) <=>
                          \E u \in 1..Len(un) : un[u] = pairs[j][1]
            /\ Overflow(lj_genA_ptRatio_axis) = 50
            /\ pc = "done" =>
                  LET nanStore == Increment(EmptyStorage, Axes(hname), nans, 1)
                  IN  /\ Cells(nanStore) \subseteq {<<50>>}
                      /\ storage =
                            Merge(Fill(hname, Restrict(objs, rest),
                                       RestrictW(weights, rest), EmptyStorage).storage,
                                  nanStore)
                      /\ Get(storage, <<50>>).n >= Len(nanw)

\* C10 witness: a batch with an event that has lepton jets and no dark
\* photon and an event that has both, filled
C10_Witness ==
    /\ hname = "lj_genA_ptRatio" /\ pc = "done"
    /\ Len(Unmatched(objs, 1)) = 1
    /\ \E i \in 1..NEvents(objs) :
          Len(objs["ljs"][i]) > 0 /\ Len(objs["genAs"][i]) > 0
    /\ Get(storage, <<50>>).n > 0
    /\ TotalEntries(storage) > Get(storage, <<50>>).n

\* the predicate of h passes an event of o that has k or fewer objects in a
\* collection the functions of h index at k
Violates(h, o) ==
    \E ck \in HistIndexes(h), e \in 1..NEvents(o) :
        HistMask(h, o)[e] /\ Len(o[ck[1]][e]) <= ck[2]

\* C11: when the predicate of a histogram passes an event with k or fewer
\* objects and a fill function selects index k, the fill goes on until a fill
\* function raises and then stops in the IndexError outcome: it never reaches
\* alignment or the storage, no flat vector and no bin entry is made, a value
\* returned by an earlier axis holds only fields of objects that exist (no
\* placeholder), and the raising function returns no value at all.  The
\* IndexError outcome arises in no other case.
C11_IndexErrorSurfaces ==
    /\ Violates(hname, objs) =>
          /\ pc \in {"idle", "masked", "IndexError"}
          /\ flat = NoFlat /\ storage = EmptyStorage
          /\ pc # "IndexError" => ENABLED Next
          /\ \A i \in 1..Len(raw) :
                raw[i].ok =>
                    /\ Len(raw[i].data) = Len(Passing(mask, 1))
                    /\ \A j \in 1..Len(raw[i].data) : ~IsNaN(raw[i].data[j])
          /\ Fill(hname, objs, weights, EmptyStorage) =
                [err |-> "IndexError", storage |-> EmptyStorage]
    /\ pc = "IndexError" =>
          /\ Violates(hname, objs)
          /\ raw[Len(raw)] = IndexError
          /\ ~ENABLED Next

\* C11 witness: index 0 selected without a predicate from a batch with an
\* event of no lepton jet after an event that has one; the fill has raised
C11_Witness ==
    /\ hname = "lj0_pfIsolation05_no_evt_mask" /\ pc = "IndexError"
    /\ NEvents(objs) = 2
    /\ Len(objs["ljs"][1]) > 0 /\ Len(objs["ljs"][2]) = 0

\* the passing events of o, in event order, under the predicate of h
PassingEvents(h, o) == Passing(HistMask(h, o), 1)

\* two ragged axes of h view collections that differ in their object count
\* in an event of o that the predicate of h passes
Mismatch(h, o) ==
    LET v == HistViews(h)
        p == PassingEvents(h, o)
    IN  \E a, b \in 1..Len(v), j \in 1..Len(p) :
            Len(o[v[a]][p[j]]) # Len(o[v[b]][p[j]])

\* C12: when two ragged axes have different inner lengths in a passing event,
\* the fill goes on until the alignment and stops there in the
\* ConfigurationError outcome: the storage is never incremented and no flat
\* vector is made, neither truncated nor zipped.  The outcome arises in no
\* other case: a mismatch in events the predicate fails is no error, and a
\* fill whose ragged axes agree in every passing event completes with one
\* entry per object of the passing events.
C12_MismatchIsConfigurationError ==
    /\ Mismatch(hname, objs) =>
          /\ pc \in {"idle", "masked", "evaluated", "ConfigurationError"}
          /\ storage = EmptyStorage
          /\ flat.vals = <<>> /\ flat.w = <<>>
          /\ pc # "ConfigurationError" => ENABLED Next
          /\ Fill(hname, objs, weights, EmptyStorage) =
                [err |-> "ConfigurationError", storage |-> EmptyStorage]
    /\ pc = "ConfigurationError" =>
          /\ Mismatch(hname, objs)
          /\ ~flat.ok
          /\ ~ENABLED Next
    /\ (CallerViews(hname) # <<>> /\ pc = "done") =>
          LET p == PassingEvents(hname, objs)
          IN  TotalEntries(storage) =
                  SumLens([j \in 1..Len(p) |-> objs["ljs"][p[j]]], 1)

\* C12 witness: lepton jet eta against dark photon phi under the predicate
\* "at least one lepton jet", stopped by an event with one lepton jet and two
\* dark photons
C12_Witness ==
    /\ hname = "lj_eta_genA_phi_evt_mask_gt0" /\ pc = "ConfigurationError"
    /\ \E e \in 1..NEvents(objs) :
          Len(objs["ljs"][e]) = 1 /\ Len(objs["genAs"][e]) = 2

\* the object counts the selections of h need: index k needs k + 1 objects
\* and a slice of two needs 2
Needs(h) ==
    {<<ck[1], ck[2] + 1>> : ck \in Indexes(h)} \cup {<<c, 2>> : c \in Slices(h)}

\* C13 (every histogram of the registry is the histogram of some fill): every
\* histogram of the registry that selects through the mask has a predicate; all its selections are in one collection and the predicate
\* passes exactly the events that hold, in that collection, as many objects
\* as the largest selection needs.  So no fill of a histogram of the registry
\* passes an event with too few objects, no fill function raises, no fill
\* ends in the IndexError outcome, and a completed fill of such a histogram
\* holds one entry per passing event.
C13_RegisteredSelectionsGuarded ==
    /\ hname \in Registered
    /\ Needs(hname) # {} <=> hname \in IndexedHists
    /\ hname \in IndexedHists =>
          /\ HasEvtMask(hname)
          /\ \E cn \in Needs(hname) :
                /\ \A dn \in Needs(hname) : dn[1] = cn[1] /\ dn[2] <= cn[2]
                /\ pc = "idle" =>
                      EvtMask(hname, objs) =
                          [e \in 1..NEvents(objs) |-> Len(objs[cn[1]][e]) >= cn[2]]
    /\ pc = "idle" =>
          /\ ~Violates(hname, objs)
          /\ Fill(hname, objs, weights, EmptyStorage).err # "IndexError"
    /\ pc # "IndexError"
    /\ \A i \in 1..Len(raw) : raw[i].ok
    /\ (hname \in IndexedHists /\ pc = "done") =>
          TotalEntries(storage) = Len(PassingEvents(hname, objs))

\* C13 witness: the angular distance of the two leading generator electrons
\* filled from a batch with an event of one electron and an event of two
C13_Witness ==
    /\ hname = "genE_genE_dR" /\ pc = "done"
    /\ \E e, f \in 1..NEvents(objs) :
          Len(objs["genEs"][e]) = 1 /\ Len(objs["genEs"][f]) = 2
    /\ TotalEntries(storage) = 1

\* C14: a histogram of the registry with more than one axis either has no
\* predicate and every axis returns a ragged value with the inner lengths of
\* one and the same collection, or has a predicate and every axis returns
\* one scalar per passing event; under a predicate that fails an event every
\* fill function of a histogram of the registry returns another value than
\* under a mask that passes all events (none ignores the mask).  So no two
\* ragged axes differ in length in a passing event and no fill ends in the
\* ConfigurationError outcome.
C14_RegisteredAxesSameShape ==
    /\ NAxes(hname) > 1 <=> hname \in MultiAxisHists
    /\ hname \in MultiAxisHists =>
          IF HasEvtMask(hname)
          THEN /\ Views(hname) = <<>>
               /\ \A i \in 1..Len(raw) :
                     /\ raw[i].ndim = 1
                     /\ Len(raw[i].data) = Len(PassingEvents(hname, objs))
          ELSE /\ Len(Views(hname)) = NAxes(hname)
               /\ \A i \in 1..NAxes(hname) : Views(hname)[i] = Views(hname)[1]
               /\ \A i \in 1..Len(raw) :
                     /\ raw[i].ndim = 2
                     /\ InnerLens(raw[i]) =
                           [e \in 1..NEvents(objs) |-> Len(objs[Views(hname)[1]][e])]
    /\ (HasEvtMask(hname) /\ pc = "masked" /\ \E e \in 1..Len(mask) : ~mask[e]) =>
          \A i \in 1..NAxes(hname) :
              FillFunc(hname, i, objs, mask) #
                  FillFunc(hname, i, objs, AllPass(NEvents(objs)))
    /\ pc = "idle" =>
          /\ ~Mismatch(hname, objs)
          /\ Fill(hname, objs, weights, EmptyStorage).err # "ConfigurationError"
    /\ pc # "ConfigurationError"
    /\ pc \in {"aligned", "done"} =>
          \A i \in 1..NAxes(hname) : Len(flat.vals[i]) = Len(flat.w)

\* C14 witness: electron_eta_phi filled from a batch with an event of no
\* electron and an event of two
C14_Witness ==
    /\ hname = "electron_eta_phi" /\ pc = "done"
    /\ \E e, f \in 1..NEvents(objs) :
          Len(objs["electrons"][e]) = 0 /\ Len(objs["electrons"][f]) = 2
    /\ TotalEntries(storage) = 2

====
